---- MODULE Spec2Model ----
(***************************************************************************)
(* Order workflow of the catalog backend: the create-order handler of      *)
(* src/app/crud.py and src/app/routers/orders.py running as concurrent     *)
(* requests, each in its own SQLAlchemy session, against the tables        *)
(* products, orders and order_products; the order-item routes of           *)
(* src/app/routers/order_items.py, whose data-access functions are not     *)
(* part of the sources and follow the written specification; the product   *)
(* routes of src/app/routers/products.py (create, PATCH, delete) and the   *)
(* reading of an order.                                                    *)
(***************************************************************************)
EXTENDS Integers, Sequences, FiniteSets, TLC

\* ------------------------------------------------------------------ bounds
NumProducts == 2
MaxStock == 2
MaxItems == 2
NumSessions == 2
MaxOrders == 2
MaxBasketOps == 1
MaxRequests == 3
MaxPrice == 1
MaxNewProducts == 1

ProductIds == 1..NumProducts
\* every product reference a request may carry; NumProducts + 1 never resolves
ProductRefs == 1..(NumProducts + 1)
OrderIds == 1..MaxOrders
Sessions == 1..NumSessions
\* schemas.ProductInOrder.quantity is a plain int: negative, zero and positive
Quantities == (0 - 1)..MaxStock
\* the quantities of a request that respects the documented quantity > 0
PositiveQuantities == 1..MaxStock

VARIABLES
    products,        \* table products: id -> [stock]
    orders,          \* table orders: the ids of the committed rows
    nextOrderId,     \* the serial of orders.id
    order_products,  \* table order_products: rows [order_id, product_id, quantity]
    pc,              \* per request: "idle", "open" (session in use), "done"
    sessOrder,       \* per request: order.id after the first commit
    reqLen,          \* per request: len(order_data.products)
    identityMap,     \* per request: the session's loaded Product objects
    newItems,        \* per request: the OrderProduct objects built so far
    crudResult,      \* per request: how crud.create_order ended
    response,        \* per request: the status code the endpoint answered
    failed,          \* per request: the pair process_product raised on
    basketOps,       \* how many basket operations have run (bounded)
    initStock,       \* history: the stock every product started with
    taken,           \* history: order -> product -> stock removed on its behalf
    catalog,         \* table products, columns name and price: id -> [name, price]
    nextProductId,   \* the serial of products.id
    processed,       \* table orders, column processed: the ids flagged true
    deleting,        \* the product a delete request has loaded, 0 when none
    lastOp           \* the last order-item or catalog request and its answer

sessVars == <<pc, sessOrder, reqLen, identityMap, newItems, crudResult, response, failed>>
adminVars == <<catalog, nextProductId, processed, deleting, lastOp>>
vars == <<products, orders, nextOrderId, order_products, pc, sessOrder, reqLen,
          identityMap, newItems, crudResult, response, failed, basketOps,
          initStock, taken, catalog, nextProductId, processed, deleting, lastOp>>

NoFailure == [idx |-> 0, product_id |-> 0, quantity |-> 0]

\* lastOp before any order-item or catalog request was made
NoRequest == [op |-> "none", order_id |-> 0, product_id |-> 0, quantity |-> 0,
              outcome |-> "none", status |-> 0, count |-> 0]

\* --------------------------------------------------------------- helpers
RECURSIVE SumQuantity(_)
SumQuantity(rows) ==
    IF rows = {} THEN 0
    ELSE LET row == CHOOSE x \in rows : TRUE
         IN row.quantity + SumQuantity(rows \ {row})

RowsOfOrder(o) == {row \in order_products : row.order_id = o}
RowsOfProduct(p) == {row \in order_products : row.product_id = p}

\* the quantities a list of pairs asks of product p, added up
RECURSIVE TotalRequested(_, _)
TotalRequested(items, p) ==
    IF items = <<>> THEN 0
    ELSE (IF Head(items).product_id = p THEN Head(items).quantity ELSE 0)
         + TotalRequested(Tail(items), p)

\* ------------------------------------------------- crud.create_order parts
\* mutation of IsEmpty: the check of the list is left out
IsEmptyNever(n) == FALSE
\* `if not order_data.products`
IsEmpty(n) == n = 0

\* mutation of InsufficientStock: `<=` for `<`
InsufficientStockOrEqual(stock, quantity) == stock <= quantity
\* `if product.stock < item.quantity`
InsufficientStock(stock, quantity) == stock < quantity

\* mutation of SelectProduct: every select builds the object anew from the
\* stored row, dropping what the session holds for it
SelectProductFromRow(r, p) ==
    IF p \notin DOMAIN products THEN [found |-> FALSE, stock |-> 0]
    ELSE [found |-> TRUE, stock |-> products[p].stock]
\* select(Product).where(id == product_id) ... .first(): None when no row has the
\* id; otherwise the session's object for that id, which keeps the attributes it
\* already holds (no refresh of a loaded object), or a new one from the row.
SelectProduct(r, p) ==
    IF p \notin DOMAIN products THEN [found |-> FALSE, stock |-> 0]
    ELSE IF p \in DOMAIN identityMap[r]
         THEN [found |-> TRUE, stock |-> identityMap[r][p].cur]
         ELSE [found |-> TRUE, stock |-> products[p].stock]

\* mutation of ProcessOutcome: a missing product raises the stock error
ProcessOutcomeWrongError(product, quantity) ==
    IF ~product.found THEN "InsufficientStock"
    ELSE IF InsufficientStock(product.stock, quantity) THEN "InsufficientStock"
    ELSE "ok"
\* the exception process_product raises for a pair, "ok" when it raises none
ProcessOutcome(product, quantity) ==
    IF ~product.found THEN "NotFound"
    ELSE IF InsufficientStock(product.stock, quantity) THEN "InsufficientStock"
    ELSE "ok"

\* status_code of the HTTPException crud.create_order raises
CrudStatus(result) ==
    CASE result = "EmptyOrder" -> 400
      [] result = "NotFound" -> 404
      [] result = "InsufficientStock" -> 400
      [] result = "ok" -> 200
      [] OTHER -> 0

\* the keys of the dict crud.create_order returns, and the fields
\* schemas.Order (the endpoint's response_model) requires
CreateOrderKeys == {"id", "products"}
OrderSchemaRequired == {"id", "created_at", "processed", "products"}

\* create_order_endpoint: every exception, HTTPException included, is caught
\* by `except Exception` and answered 500; a returned value is validated
\* against response_model.
EndpointResponse(result) ==
    IF result # "ok" THEN 500
    ELSE IF OrderSchemaRequired \subseteq CreateOrderKeys THEN 200 ELSE 500

\* mutation of ProductsAfterClose: the stock of the pairs already processed is
\* written although the request failed
ProductsAfterPartialFlush(r) ==
    [p \in DOMAIN products |->
        IF p \in DOMAIN identityMap[r]
        THEN [stock |-> identityMap[r][p].cur] ELSE products[p]]
\* the products table after a session is closed without commit (autoflush is
\* off, nothing was flushed): its pending changes are discarded
ProductsAfterClose(r) == products

\* mutation of ProductsAfterCommit: one session object shared by all requests,
\* so a commit also writes what the other requests have pending
ProductsAfterCommitSharedSession(r) ==
    [p \in DOMAIN products |->
        LET holders == {s \in Sessions : /\ p \in DOMAIN identityMap[s]
                                         /\ identityMap[s][p].cur # identityMap[s][p].orig}
        IN IF holders # {}
           THEN [stock |-> identityMap[CHOOSE s \in holders : TRUE][p].cur]
           ELSE products[p]]
\* the products table after the session's flush and commit: one UPDATE per
\* loaded product whose stock attribute changed, setting the value computed
\* in memory
ProductsAfterCommit(r) ==
    [p \in DOMAIN products |->
        IF p \in DOMAIN identityMap[r] /\ identityMap[r][p].cur # identityMap[r][p].orig
        THEN [stock |-> identityMap[r][p].cur] ELSE products[p]]

\* mutation of PrimaryKeyViolation: the line-item table has no key over
\* (order_id, product_id)
NoPrimaryKey(items) == FALSE
\* primary key (order_id, product_id) of the line-item table: the INSERTs of a
\* flush fail when two of the new rows, or a new row and a stored one, have
\* the same key
PrimaryKeyViolation(items) ==
    \/ \E i, j \in 1..Len(items) : i < j /\ items[i].product_id = items[j].product_id
    \/ \E i \in 1..Len(items) : \E row \in order_products :
          row.order_id = items[i].order_id /\ row.product_id = items[i].product_id

\* foreign key product_id -> products.id: the INSERT of a row whose product is
\* no longer stored fails
ForeignKeyViolation(items) ==
    \E i \in 1..Len(items) : items[i].product_id \notin DOMAIN products

ItemRows(items) == {items[i] : i \in 1..Len(items)}

\* models.OrderProduct(order_id=..., product_id=..., quantity=...): the name and
\* price columns of the line item are left unset (snapshot is the set of
\* [name, price] records the row stores: none)
OrderProduct(o, p, q) ==
    [order_id |-> o, product_id |-> p, quantity |-> q, snapshot |-> {}]

\* history: what order o has taken from stock, after the table became newProducts
TakenAfter(o, newProducts) ==
    [taken EXCEPT ![o] = [p \in ProductIds |->
        IF p \in DOMAIN products /\ p \in DOMAIN newProducts
        THEN @[p] + products[p].stock - newProducts[p].stock ELSE @[p]]]

\* ------------------------------------------------------------------ Init
Init ==
    /\ products \in [ProductIds -> [stock : 0..MaxStock]]
    /\ orders = {}
    /\ nextOrderId = 1
    /\ order_products = {}
    /\ pc = [r \in Sessions |-> "idle"]
    /\ sessOrder = [r \in Sessions |-> 0]
    /\ reqLen = [r \in Sessions |-> 0]
    /\ identityMap = [r \in Sessions |-> <<>>]
    /\ newItems = [r \in Sessions |-> <<>>]
    /\ crudResult = [r \in Sessions |-> "none"]
    /\ response = [r \in Sessions |-> 0]
    /\ failed = [r \in Sessions |-> NoFailure]
    /\ basketOps = 0
    /\ initStock = [p \in ProductIds |-> products[p].stock]
    /\ taken = [o \in OrderIds |-> [p \in ProductIds |-> 0]]
    /\ catalog = [p \in ProductIds |-> [name |-> <<"n", "1">>, price |-> 1]]
    /\ nextProductId = NumProducts + 1
    /\ processed = {}
    /\ deleting = 0
    /\ lastOp = NoRequest

\* ------------------------------------------------ create-order, step by step
\* crud.create_order up to its first await db.commit(): the Order row is stored.
\* A request takes the lowest free session slot (the slots are interchangeable).
BeginOrder(r) ==
    /\ pc[r] \in {"idle", "done"}
    /\ nextOrderId <= MaxOrders
    /\ \A s \in Sessions : s < r => pc[s] = "open"
    /\ \E n \in 0..MaxItems : reqLen' = [reqLen EXCEPT ![r] = n]
    /\ orders' = orders \cup {nextOrderId}
    /\ nextOrderId' = nextOrderId + 1
    /\ sessOrder' = [sessOrder EXCEPT ![r] = nextOrderId]
    /\ pc' = [pc EXCEPT ![r] = "open"]
    /\ identityMap' = [identityMap EXCEPT ![r] = <<>>]
    /\ newItems' = [newItems EXCEPT ![r] = <<>>]
    /\ crudResult' = [crudResult EXCEPT ![r] = "none"]
    /\ response' = [response EXCEPT ![r] = 0]
    /\ failed' = [failed EXCEPT ![r] = NoFailure]
    /\ UNCHANGED <<products, order_products, basketOps, initStock, taken, adminVars>>

\* an exception leaves crud.create_order: the endpoint answers, get_db closes
\* the session
RaiseFrom(r, result, item) ==
    /\ pc' = [pc EXCEPT ![r] = "done"]
    /\ crudResult' = [crudResult EXCEPT ![r] = result]
    /\ response' = [response EXCEPT ![r] = EndpointResponse(result)]
    /\ failed' = [failed EXCEPT ![r] = item]
    /\ products' = ProductsAfterClose(r)
    /\ taken' = TakenAfter(sessOrder[r], ProductsAfterClose(r))
    /\ identityMap' = [identityMap EXCEPT ![r] = <<>>]
    /\ newItems' = [newItems EXCEPT ![r] = <<>>]
    /\ UNCHANGED <<orders, nextOrderId, order_products, sessOrder, reqLen, basketOps,
                   initStock, adminVars>>

\* `if not order_data.products: raise HTTPException(400)`
RejectEmpty(r) ==
    /\ pc[r] = "open"
    /\ IsEmpty(reqLen[r])
    /\ RaiseFrom(r, "EmptyOrder", NoFailure)

\* one call of process_product: the next pair of order_data.products
ProcessProduct(r, requestable) ==
    /\ pc[r] = "open"
    /\ ~IsEmpty(reqLen[r])
    /\ Len(newItems[r]) < reqLen[r]
    /\ \E p \in ProductRefs, q \in requestable :
         LET product == SelectProduct(r, p)
             outcome == ProcessOutcome(product, q)
             orig == IF p \in DOMAIN identityMap[r]
                     THEN identityMap[r][p].orig ELSE product.stock
         IN IF outcome # "ok"
            THEN RaiseFrom(r, outcome,
                    [idx |-> Len(newItems[r]) + 1, product_id |-> p, quantity |-> q])
            ELSE /\ product.stock - q <= MaxStock
                 /\ identityMap' = [identityMap EXCEPT ![r] =
                        (p :> [orig |-> orig, cur |-> product.stock - q]) @@ @]
                 /\ newItems' = [newItems EXCEPT ![r] = Append(@,
                        OrderProduct(sessOrder[r], p, q))]
                 /\ UNCHANGED <<products, orders, nextOrderId, order_products, pc,
                                sessOrder, reqLen, crudResult, response, failed,
                                basketOps, initStock, taken, adminVars>>

\* db.add of the OrderProduct objects and the final await db.commit()
CommitOrder(r) ==
    /\ pc[r] = "open"
    /\ ~IsEmpty(reqLen[r])
    /\ Len(newItems[r]) = reqLen[r]
    /\ IF PrimaryKeyViolation(newItems[r]) \/ ForeignKeyViolation(newItems[r])
       THEN RaiseFrom(r, "IntegrityError", NoFailure)
       ELSE /\ products' = ProductsAfterCommit(r)
            /\ order_products' = order_products \cup ItemRows(newItems[r])
            /\ taken' = TakenAfter(sessOrder[r], ProductsAfterCommit(r))
            /\ pc' = [pc EXCEPT ![r] = "done"]
            /\ crudResult' = [crudResult EXCEPT ![r] = "ok"]
            /\ response' = [response EXCEPT ![r] = EndpointResponse("ok")]
            /\ identityMap' = [identityMap EXCEPT ![r] = <<>>]
            /\ newItems' = [newItems EXCEPT ![r] = <<>>]
            /\ UNCHANGED <<orders, nextOrderId, sessOrder, reqLen, failed, basketOps,
                           initStock, adminVars>>

\* ------------------------------------------------------ basket operations
\* The data-access functions the order-item routes call (add_item_to_order,
\* update_order_item_quantity, the cancellation of an order) are not among the
\* sources; they are written here from the specification's section 4.1, each
\* as one transaction. A call they refuse leaves every table as it was.

\* "insert a new line item, performing the same stock check/decrement as order
\* creation"
AddItemOutcome(o, p, q) ==
    IF o \notin orders \/ p \notin DOMAIN products THEN "NotFound"
    ELSE IF q <= 0 THEN "ValidationError"
    ELSE IF q > products[p].stock THEN "InsufficientStock"
    ELSE "ok"

add_item_to_order(o, p, q) ==
    /\ AddItemOutcome(o, p, q) = "ok"
    /\ products' = [products EXCEPT ![p].stock = @ - q]
    /\ order_products' = order_products \cup
            {[order_id |-> o, product_id |-> p, quantity |-> q,
              snapshot |-> {catalog[p]}]}
    /\ taken' = TakenAfter(o, products')

\* "given a new absolute quantity, compute the delta versus the existing
\* quantity: if increasing, re-check stock for the delta; if decreasing,
\* restore the delta back to stock"
UpdateQuantityOutcome(row, q) ==
    IF row \notin order_products \/ row.product_id \notin DOMAIN products
    THEN "NotFound"
    ELSE IF q <= 0 THEN "ValidationError"
    ELSE IF q - row.quantity > products[row.product_id].stock THEN "InsufficientStock"
    ELSE "ok"

update_order_item_quantity(row, q) ==
    /\ UpdateQuantityOutcome(row, q) = "ok"
    /\ products' = [products EXCEPT ![row.product_id].stock = @ - (q - row.quantity)]
    /\ order_products' = (order_products \ {row}) \cup {[row EXCEPT !.quantity = q]}
    /\ taken' = TakenAfter(row.order_id, products')

\* routers/order_items.py add_item_to_basket: an existing (order, product) item
\* is handed to update_order_item_quantity with the request's quantity, any
\* other pair to add_item_to_order
AddItemToBasket(o, p, q) ==
    /\ LET existing == {row \in order_products :
                            row.order_id = o /\ row.product_id = p}
       IN IF existing # {}
          THEN update_order_item_quantity(CHOOSE row \in existing : TRUE, q)
          ELSE add_item_to_order(o, p, q)
    /\ basketOps < MaxBasketOps
    /\ basketOps' = basketOps + 1
    /\ UNCHANGED <<orders, nextOrderId, sessVars, initStock, adminVars>>

\* routers/order_items.py modify_item_quantity
ModifyItemQuantity(row, q) ==
    /\ update_order_item_quantity(row, q)
    /\ basketOps < MaxBasketOps
    /\ basketOps' = basketOps + 1
    /\ UNCHANGED <<orders, nextOrderId, sessVars, initStock, adminVars>>

\* "for every line item belonging to the order: increment the product's stock
\* by the item's quantity, then delete all line items, then delete the order
\* itself"; an order without line items is answered not found
CancelOrder(o) ==
    /\ o \in orders
    /\ RowsOfOrder(o) # {}
    /\ products' = [p \in DOMAIN products |->
            [stock |-> products[p].stock
                + SumQuantity({row \in RowsOfOrder(o) : row.product_id = p})]]
    /\ order_products' = order_products \ RowsOfOrder(o)
    /\ orders' = orders \ {o}
    /\ taken' = TakenAfter(o, products')
    /\ basketOps < MaxBasketOps
    /\ basketOps' = basketOps + 1
    /\ UNCHANGED <<nextOrderId, sessVars, initStock, adminVars>>

\* ------------------------------------------------- order-item routes
\* The routes of routers/order_items.py with the answer each one gives. A line
\* item is addressed by its key (order, product); the data-access functions
\* behind the routes follow the written specification (section 4.1) and run as
\* one transaction each. A request the function refuses changes no table.
ItemAt(o, p) == {row \in order_products : row.order_id = o /\ row.product_id = p}

Answer(op, o, p, q, outcome, status, count) ==
    [op |-> op, order_id |-> o, product_id |-> p, quantity |-> q,
     outcome |-> outcome, status |-> status, count |-> count]

\* a request that is one transaction: it answers and uses one unit of the budget
OneRequest(answer) ==
    /\ basketOps < MaxRequests
    /\ basketOps' = basketOps + 1
    /\ lastOp' = answer

\* add_item_to_basket: an item found by get_order_item_by_product is handed to
\* update_order_item_quantity together with the request's data, any other pair
\* to add_item_to_order; every exception is answered 400
add_item_to_basket(o, p, q) ==
    LET existing == ItemAt(o, p)
        row == CHOOSE x \in existing : TRUE
        outcome == IF existing # {} THEN UpdateQuantityOutcome(row, q)
                   ELSE AddItemOutcome(o, p, q)
    IN /\ OneRequest(Answer("add", o, p, q, outcome,
                            IF outcome = "ok" THEN 200 ELSE 400, 0))
       /\ IF outcome # "ok" THEN UNCHANGED <<products, order_products, taken>>
          ELSE IF existing # {} THEN update_order_item_quantity(row, q)
          ELSE add_item_to_order(o, p, q)
       /\ UNCHANGED <<orders, nextOrderId, sessVars, initStock, catalog,
                      nextProductId, processed, deleting>>

\* mutation of modify_item_quantity: the request's quantity is taken as an
\* amount to add to the item
modify_item_quantity_as_increment(o, p, q) ==
    LET existing == ItemAt(o, p)
        row == CHOOSE x \in existing : TRUE
        total == IF existing = {} THEN q ELSE row.quantity + q
        outcome == IF existing = {} THEN "NotFound"
                   ELSE UpdateQuantityOutcome(row, total)
    IN /\ OneRequest(Answer("modify", o, p, q, outcome,
                            IF outcome = "ok" THEN 200 ELSE 400, 0))
       /\ IF outcome # "ok" THEN UNCHANGED <<products, order_products, taken>>
          ELSE update_order_item_quantity(row, total)
       /\ UNCHANGED <<orders, nextOrderId, sessVars, initStock, catalog,
                      nextProductId, processed, deleting>>
\* modify_item_quantity: the item's new quantity goes to
\* update_order_item_quantity; the 404 raised for a falsy result is inside the
\* try, so `except Exception` answers it, like every exception, with 400
modify_item_quantity(o, p, q) ==
    LET existing == ItemAt(o, p)
        row == CHOOSE x \in existing : TRUE
        outcome == IF existing = {} THEN "NotFound" ELSE UpdateQuantityOutcome(row, q)
    IN /\ OneRequest(Answer("modify", o, p, q, outcome,
                            IF outcome = "ok" THEN 200 ELSE 400, 0))
       /\ IF outcome # "ok" THEN UNCHANGED <<products, order_products, taken>>
          ELSE update_order_item_quantity(row, q)
       /\ UNCHANGED <<orders, nextOrderId, sessVars, initStock, catalog,
                      nextProductId, processed, deleting>>

\* "restore the item's quantity to the product's stock, then delete the
\* line-item record"; False when no such item is stored
delete_order_item(row) ==
    /\ row \in order_products
    /\ products' = [products EXCEPT ![row.product_id].stock = @ + row.quantity]
    /\ order_products' = order_products \ {row}
    /\ taken' = TakenAfter(row.order_id, products')

\* mutation of remove_item_from_basket: the result of delete_order_item is not
\* looked at
remove_item_from_basket_unchecked(o, p) ==
    LET existing == ItemAt(o, p)
        row == CHOOSE x \in existing : TRUE
        success == existing # {}
    IN /\ OneRequest(Answer("remove", o, p, 0,
                            IF success THEN "ok" ELSE "NotFound", 200, 0))
       /\ IF success THEN delete_order_item(row)
          ELSE UNCHANGED <<products, order_products, taken>>
       /\ UNCHANGED <<orders, nextOrderId, sessVars, initStock, catalog,
                      nextProductId, processed, deleting>>
\* remove_item_from_basket: `if not success: raise HTTPException(404)`, outside
\* any try
remove_item_from_basket(o, p) ==
    LET existing == ItemAt(o, p)
        row == CHOOSE x \in existing : TRUE
        success == existing # {}
    IN /\ OneRequest(Answer("remove", o, p, 0,
                            IF success THEN "ok" ELSE "NotFound",
                            IF success THEN 200 ELSE 404, 0))
       /\ IF success THEN delete_order_item(row)
          ELSE UNCHANGED <<products, order_products, taken>>
       /\ UNCHANGED <<orders, nextOrderId, sessVars, initStock, catalog,
                      nextProductId, processed, deleting>>

\* create-order requests one after the other, positive quantities only
SingleCreateStep ==
    \/ BeginOrder(1)
    \/ RejectEmpty(1)
    \/ ProcessProduct(1, PositiveQuantities)
    \/ CommitOrder(1)

NextBasket ==
    \/ SingleCreateStep
    \/ \E o \in OrderIds, p \in ProductIds, q \in PositiveQuantities :
          add_item_to_basket(o, p, q)
    \/ \E o \in OrderIds, p \in ProductIds, q \in PositiveQuantities :
          modify_item_quantity(o, p, q)
    \/ \E o \in OrderIds, p \in ProductIds : remove_item_from_basket(o, p)

\* one create-order request at a time and the add, update-quantity and remove
\* routes of the order items
SpecBasket == Init /\ [][NextBasket]_vars

\* ------------------------------------------ confirmation and admin edits
\* crud.confirm_order and crud.update_order_processed_status are not among
\* the sources either. "Re-validates that stock is still sufficient for every
\* line item at confirmation time and decrements stock only at this point; if
\* any item now has insufficient stock, the whole confirmation fails and no
\* stock is touched"; an order without items is never confirmed.
ConfirmOutcome(o) ==
    IF o \notin orders THEN "NotFound"
    ELSE IF RowsOfOrder(o) = {} THEN "EmptyOrder"
    ELSE IF \E row \in RowsOfOrder(o) :
                \/ row.product_id \notin DOMAIN products
                \/ row.quantity > products[row.product_id].stock
         THEN "InsufficientStock"
    ELSE "ok"

crud_confirm_order(o) ==
    /\ ConfirmOutcome(o) = "ok"
    /\ products' = [p \in DOMAIN products |->
            [stock |-> products[p].stock
                - SumQuantity({row \in RowsOfOrder(o) : row.product_id = p})]]
    /\ processed' = processed \cup {o}
    /\ taken' = TakenAfter(o, products')

\* mutation of confirm_order: the confirmation is answered as done whatever
\* crud.confirm_order returned
confirm_order_unchecked(o) ==
    LET outcome == ConfirmOutcome(o)
    IN /\ OneRequest(Answer("confirm", o, 0, 0, "ok", 200, 0))
       /\ IF outcome = "ok" THEN crud_confirm_order(o)
          ELSE UNCHANGED <<products, processed, taken>>
       /\ UNCHANGED <<orders, nextOrderId, order_products, sessVars, initStock,
                      catalog, nextProductId, deleting>>
\* confirm_order: a falsy result and every exception are answered 400
confirm_order(o) ==
    LET outcome == ConfirmOutcome(o)
    IN /\ OneRequest(Answer("confirm", o, 0, 0, outcome,
                            IF outcome = "ok" THEN 200 ELSE 400, 0))
       /\ IF outcome = "ok" THEN crud_confirm_order(o)
          ELSE UNCHANGED <<products, processed, taken>>
       /\ UNCHANGED <<orders, nextOrderId, order_products, sessVars, initStock,
                      catalog, nextProductId, deleting>>

\* routers/orders.py update_order_processed_status: processed_status is any
\* bool and goes to crud.update_order_processed_status, which stores it in the
\* order's processed column
update_order_processed_status(o, processed_status) ==
    /\ OneRequest(Answer("processed", o, 0, 0,
                         IF o \in orders THEN "ok" ELSE "NotFound",
                         IF o \in orders THEN 200 ELSE 404, 0))
    /\ processed' = IF o \notin orders THEN processed
                    ELSE IF processed_status THEN processed \cup {o}
                    ELSE processed \ {o}
    /\ UNCHANGED <<products, orders, nextOrderId, order_products, sessVars,
                   initStock, taken, catalog, nextProductId, deleting>>

\* ------------------------------------------------------- product routes
\* a form field of a PATCH or POST is a set: empty when the field is not
\* sent (None), else the one value sent
Optional(values) == {{}} \cup {{v} : v \in values}
FieldOr(field, old) == IF field = {} THEN old ELSE CHOOSE v \in field : TRUE

\* a name is a string, kept as the sequence of its characters
Names == {<<"n", "1">>, <<"n", "2">>}
\* price: float and stock: int of the forms carry no constraint
Prices == (0 - 1)..MaxPrice
Stocks == (0 - 1)..MaxStock

\* the names of the form fields a PATCH carries (`is not None`)
SentFields(name, price, stock) ==
    (IF name # {} THEN {"name"} ELSE {}) \cup (IF price # {} THEN {"price"} ELSE {})
    \cup (IF stock # {} THEN {"stock"} ELSE {})

\* the answer of a PATCH, with the fields the request carried
PatchAnswer(p, name, price, stock) ==
    [sent |-> SentFields(name, price, stock)]
    @@ Answer("patch", 0, p, 0,
              IF p \in DOMAIN products THEN "ok" ELSE "NotFound",
              IF p \in DOMAIN products THEN 200 ELSE 404, 0)

\* mutation of update_product: a field the request leaves out is given the
\* form's default, as in a PUT that replaces the product
update_product_replacing(p, name, price, stock) ==
    /\ OneRequest(PatchAnswer(p, name, price, stock))
    /\ IF p \notin DOMAIN products THEN UNCHANGED <<products, catalog>>
       ELSE /\ products' = [products EXCEPT ![p].stock = FieldOr(stock, 0)]
            /\ catalog' = [catalog EXCEPT ![p].name = FieldOr(name, @),
                                          ![p].price = FieldOr(price, 0)]
    /\ UNCHANGED <<orders, nextOrderId, order_products, sessVars, initStock, taken,
                   nextProductId, processed, deleting>>
\* routers/products.py update_product with crud.update_product: 404 for an
\* unknown id, else every field that was sent is set on the loaded product
\* and committed
update_product(p, name, price, stock) ==
    /\ OneRequest(PatchAnswer(p, name, price, stock))
    /\ IF p \notin DOMAIN products THEN UNCHANGED <<products, catalog>>
       ELSE /\ products' = [products EXCEPT ![p].stock = FieldOr(stock, @)]
            /\ catalog' = [catalog EXCEPT ![p].name = FieldOr(name, @),
                                          ![p].price = FieldOr(price, @)]
    /\ UNCHANGED <<orders, nextOrderId, order_products, sessVars, initStock, taken,
                   nextProductId, processed, deleting>>

NextConfirm ==
    \/ SingleCreateStep
    \/ \E o \in OrderIds : confirm_order(o)
    \/ \E o \in OrderIds, processed_status \in BOOLEAN :
          update_order_processed_status(o, processed_status)
    \/ \E p \in ProductIds, stock \in Optional(Stocks) :
          update_product(p, {}, {}, stock)

\* one create-order request at a time, the confirmation of orders, the
\* processed flag and admin edits of the stock
SpecConfirm == Init /\ [][NextConfirm]_vars

\* routers/products.py create_product with crud.create_product: the form's
\* name, price and stock are stored as sent under the next id
create_product(name, price, stock) ==
    /\ nextProductId <= NumProducts + MaxNewProducts
    /\ OneRequest(Answer("create", 0, nextProductId, 0, "ok", 200, 0))
    /\ products' = (nextProductId :> [stock |-> stock]) @@ products
    /\ catalog' = (nextProductId :> [name |-> name, price |-> price]) @@ catalog
    /\ nextProductId' = nextProductId + 1
    /\ UNCHANGED <<orders, nextOrderId, order_products, sessVars, initStock, taken,
                   processed, deleting>>

NextCatalog ==
    \/ \E name \in Names, price \in Prices, stock \in Stocks :
          create_product(name, price, stock)
    \/ \E p \in ProductRefs, name \in Optional(Names), price \in Optional(Prices),
          stock \in Optional(Stocks) : update_product(p, name, price, stock)

\* the creation and PATCH of products
SpecCatalog == Init /\ [][NextCatalog]_vars

NextSnapshot ==
    \/ SingleCreateStep
    \/ \E p \in ProductIds, name \in Optional(Names), price \in Optional(Prices) :
          update_product(p, name, price, {})

\* one create-order request at a time and edits of the products' name and
\* price
SpecSnapshot == Init /\ [][NextSnapshot]_vars

\* ------------------------------------------- product deletion, order read
\* routers/products.py delete_product with crud.delete_product, first half:
\* the product is selected (404 when no row has the id), db.delete marks it
\* and the flush of db.commit loads Product.order_items. The relationship has
\* no delete cascade and passive_deletes is off, so the flush tries to blank
\* the product_id of every line item it loaded; product_id is part of the
\* primary key and the flush raises (AssertionError, answered 500, nothing
\* written). With no line item loaded the DELETE is next.
DeleteProductLoad(p) ==
    /\ deleting = 0
    /\ basketOps < MaxRequests
    /\ basketOps' = basketOps + 1
    /\ IF p \notin DOMAIN products
       THEN /\ lastOp' = Answer("delete", 0, p, 0, "NotFound", 404, 0)
            /\ UNCHANGED deleting
       ELSE IF RowsOfProduct(p) # {}
       THEN /\ lastOp' = Answer("delete", 0, p, 0, "AssertionError", 500, 0)
            /\ UNCHANGED deleting
       ELSE /\ deleting' = p
            /\ UNCHANGED lastOp
    /\ UNCHANGED <<products, orders, nextOrderId, order_products, sessVars,
                   initStock, taken, catalog, nextProductId, processed>>

\* mutation of RowsAfterProductDelete: the foreign key has no ON DELETE CASCADE
\* that removes the rows with the product
RowsAfterProductDeleteNoCascade(p) == order_products
\* ForeignKey("products.id", ondelete="CASCADE"): the DELETE of a product row
\* takes every line item that references it, committed in the meantime or not
\* loaded, with it
RowsAfterProductDelete(p) == order_products \ RowsOfProduct(p)

\* second half: DELETE FROM products and the commit. The deleted object comes
\* back expired and the serialisation for response_model cannot reload it: the
\* deletion is stored, the answer is 500.
DeleteProductFlush ==
    /\ deleting # 0
    /\ products' = [p \in DOMAIN products \ {deleting} |-> products[p]]
    /\ catalog' = [p \in DOMAIN catalog \ {deleting} |-> catalog[p]]
    /\ order_products' = RowsAfterProductDelete(deleting)
    /\ deleting' = 0
    /\ lastOp' = Answer("delete", 0, deleting, 0, "ok", 500, 0)
    /\ UNCHANGED <<orders, nextOrderId, sessVars, basketOps, initStock, taken,
                   nextProductId, processed>>

\* the keys of the dict crud.get_order_by_id returns
GetOrderKeys == {"id", "created_at", "updated_at", "products"}

\* crud.get_order_by_id behind get_order_by_id_endpoint: 404 when no order has
\* the id; else one entry per line item of the order whose product is loaded
\* (`for op in order.order_products if op.product`), built from the live
\* product. `count` is the number of entries; the dict is validated against
\* response_model schemas.Order.
get_order_by_id(o) ==
    /\ OneRequest(
          IF o \notin orders THEN Answer("read", o, 0, 0, "NotFound", 404, 0)
          ELSE Answer("read", o, 0, 0, "ok",
                      IF OrderSchemaRequired \subseteq GetOrderKeys THEN 200 ELSE 500,
                      Cardinality({row \in RowsOfOrder(o) :
                                      row.product_id \in DOMAIN products})))
    /\ UNCHANGED <<products, orders, nextOrderId, order_products, sessVars,
                   initStock, taken, catalog, nextProductId, processed, deleting>>

\* the keys of each dict crud.get_all_orders returns
GetAllOrdersKeys == {"id", "created_at", "updated_at", "products"}

\* the list crud.get_all_orders builds: for each order selected, the number of
\* its line items whose product is loaded (`if op.product`)
OrderEntries(selected) ==
    [o \in selected |->
        Cardinality({row \in RowsOfOrder(o) : row.product_id \in DOMAIN products})]

\* the answer of the list-all route for the orders its select returned: 404
\* 'No orders found' raised by crud.get_all_orders and passed on by the
\* endpoint when there are none; else the list, validated against
\* response_model List[schemas.Order]. `count` is the length of the list.
ListAnswer(selected) ==
    IF selected = {}
    THEN [entries |-> OrderEntries({})] @@ Answer("list", 0, 0, 0, "NotFound", 404, 0)
    ELSE [entries |-> OrderEntries(selected)]
         @@ Answer("list", 0, 0, 0, "ok",
                   IF OrderSchemaRequired \subseteq GetAllOrdersKeys THEN 200 ELSE 500,
                   Cardinality(selected))

\* mutation of get_all_orders: the orders are selected through a join with
\* their line items, which leaves out the orders that have none
get_all_orders_joined ==
    /\ OneRequest(ListAnswer({o \in orders : RowsOfOrder(o) # {}}))
    /\ UNCHANGED <<products, orders, nextOrderId, order_products, sessVars,
                   initStock, taken, catalog, nextProductId, processed, deleting>>
\* crud.get_all_orders behind get_all_orders_endpoint: select(models.Order)
\* returns every order row, with or without line items
get_all_orders ==
    /\ OneRequest(ListAnswer(orders))
    /\ UNCHANGED <<products, orders, nextOrderId, order_products, sessVars,
                   initStock, taken, catalog, nextProductId, processed, deleting>>

NextList ==
    \/ SingleCreateStep
    \/ \E p \in ProductRefs : DeleteProductLoad(p)
    \/ DeleteProductFlush
    \/ get_all_orders

\* one create-order request at a time, the deletion of products and the
\* listing of all orders
SpecList == Init /\ [][NextList]_vars

NextDelete ==
    \/ SingleCreateStep
    \/ \E p \in ProductRefs : DeleteProductLoad(p)
    \/ DeleteProductFlush
    \/ \E o \in OrderIds : get_order_by_id(o)

\* one create-order request at a time, the deletion of products and the
\* reading of orders
SpecDelete == Init /\ [][NextDelete]_vars

\* ------------------------------------------- product lookup by identifier
MaxIdLen == 2

\* the characters of an identifier or a name: two digits, a letter and the
\* line feed ("LF")
Chars == {"1", "2", "n", "LF"}
Digits == {"1", "2"}

\* the path parameter `identifier: str`: any string of at least one character
Identifiers == UNION {[1..n -> Chars] : n \in 1..MaxIdLen}

\* re.match(r'^\d+$', identifier): one or more digits from the start, up to
\* the end of the string or to a line feed that ends the string
MatchesDigits(s) ==
    \E n \in 1..Len(s) :
        /\ \A i \in 1..n : s[i] \in Digits
        /\ \/ n = Len(s)
           \/ n = Len(s) - 1 /\ s[Len(s)] = "LF"

\* int(identifier): white space at both ends is dropped, the rest is read as
\* a decimal number
RECURSIVE Strip(_)
Strip(s) ==
    IF s # <<>> /\ s[Len(s)] = "LF" THEN Strip(SubSeq(s, 1, Len(s) - 1))
    ELSE IF s # <<>> /\ Head(s) = "LF" THEN Strip(Tail(s))
    ELSE s

DigitValue(c) == CASE c = "1" -> 1 [] c = "2" -> 2

RECURSIVE Decimal(_)
Decimal(s) ==
    IF s = <<>> THEN 0
    ELSE 10 * Decimal(SubSeq(s, 1, Len(s) - 1)) + DigitValue(s[Len(s)])

ParseInt(s) == Decimal(Strip(s))

\* crud.get_product_by_id / get_product_by_name: the rows the select matches;
\* `.first()` takes one of them, None when there is none (names are not
\* unique and the select has no ORDER BY)
get_product_by_id(product_id) == {p \in DOMAIN products : p = product_id}
get_product_by_name(product_name) ==
    {p \in DOMAIN catalog : catalog[p].name = product_name}

\* routers/products.py read_product_by_id_or_name: 404 when the call returns
\* None. The answer names the product found in `product_id` (0 for none).
read_product_by_id_or_name(identifier) ==
    LET rows == IF MatchesDigits(identifier)
                THEN get_product_by_id(ParseInt(identifier))
                ELSE get_product_by_name(identifier)
    IN /\ \E product \in (IF rows = {} THEN {0} ELSE rows) :
             OneRequest([identifier |-> identifier]
                        @@ Answer("lookup", 0, product, 0,
                                  IF product = 0 THEN "NotFound" ELSE "ok",
                                  IF product = 0 THEN 404 ELSE 200, 0))
       /\ UNCHANGED <<products, orders, nextOrderId, order_products, sessVars,
                      initStock, taken, catalog, nextProductId, processed, deleting>>

NextLookup ==
    \/ \E p \in ProductRefs, name \in Optional(Identifiers) :
          update_product(p, name, {}, {})
    \/ \E identifier \in Identifiers : read_product_by_id_or_name(identifier)

\* the renaming of products and the lookup of a product by identifier
SpecLookup == Init /\ [][NextLookup]_vars

\* the steps of the create-order requests, their quantities drawn from
\* `requestable`
CreateOrderStep(requestable) ==
    \/ \E r \in Sessions : BeginOrder(r)
    \/ \E r \in Sessions : RejectEmpty(r)
    \/ \E r \in Sessions : ProcessProduct(r, requestable)
    \/ \E r \in Sessions : CommitOrder(r)

BasketStep ==
    \/ \E o \in OrderIds, p \in ProductIds, q \in 1..MaxStock : AddItemToBasket(o, p, q)
    \/ \E row \in order_products, q \in 1..MaxStock : ModifyItemQuantity(row, q)
    \/ \E o \in OrderIds : CancelOrder(o)

Next == CreateOrderStep(Quantities) \/ BasketStep

\* every operation, any integer quantity in a create-order request
Spec == Init /\ [][Next]_vars

NextValid == CreateOrderStep(PositiveQuantities) \/ BasketStep

\* every operation, create-order requests with positive quantities only
SpecValid == Init /\ [][NextValid]_vars

NextRace == CreateOrderStep(PositiveQuantities)

\* concurrent create-order requests alone, positive quantities only
SpecRace == Init /\ [][NextRace]_vars

\* ------------------------------------------------- abandoned requests
\* the client goes away while a create-order request waits on the database:
\* the handler is cancelled at its await, nothing is answered, and get_db's
\* `finally` closes the session with whatever it holds uncommitted
AbandonOrder(r) ==
    /\ pc[r] = "open"
    /\ pc' = [pc EXCEPT ![r] = "done"]
    /\ crudResult' = [crudResult EXCEPT ![r] = "Cancelled"]
    /\ response' = [response EXCEPT ![r] = 0]
    /\ failed' = [failed EXCEPT ![r] =
            [idx |-> Len(newItems[r]) + 1, product_id |-> 0, quantity |-> 0]]
    /\ products' = ProductsAfterClose(r)
    /\ taken' = TakenAfter(sessOrder[r], ProductsAfterClose(r))
    /\ identityMap' = [identityMap EXCEPT ![r] = <<>>]
    /\ newItems' = [newItems EXCEPT ![r] = <<>>]
    /\ UNCHANGED <<orders, nextOrderId, order_products, sessOrder, reqLen, basketOps,
                   initStock, adminVars>>

NextAbandon ==
    \/ CreateOrderStep(Quantities)
    \/ \E r \in Sessions : AbandonOrder(r)

\* concurrent create-order requests, any of which may be abandoned at any
\* await
SpecAbandon == Init /\ [][NextAbandon]_vars

\* ------------------------------------------------------------ properties
\* request r takes a step of create-order
SessStep(r) ==
    /\ pc[r] = "open"
    /\ (pc'[r] # pc[r] \/ newItems'[r] # newItems[r])

\* the stock process_product compares a pair of request r against
SeenStock(r, p) ==
    IF p \in DOMAIN identityMap[r] THEN identityMap[r][p].cur ELSE products[p].stock

\* C1: every product's persisted stock is >= 0 after any sequence of
\* create-order, add-item, update-quantity and cancel operations.
C1_StockNonNegative ==
    \A p \in DOMAIN products : products[p].stock >= 0

\* C2: a create-order that fails on a later pair (insufficient stock or unknown
\* product) leaves the persisted stock of every product unchanged and commits
\* no line item: no step of a request other than its successful final commit
\* writes to products or order_products.
C2_FailedCreateWritesNothing ==
    [][\A r \in Sessions :
          (SessStep(r) /\ crudResult'[r] # "ok")
          => (products' = products /\ order_products' = order_products)]_vars

C2_Witness ==
    \E r \in Sessions :
        /\ pc[r] = "done"
        /\ crudResult[r] \in {"InsufficientStock", "NotFound"}
        /\ failed[r].idx = 2
        /\ RowsOfOrder(sessOrder[r]) = {}
        /\ \A p \in ProductIds : products[p].stock = initStock[p]

\* C3: for every interleaving of create-order requests the check and the
\* decrement are one atomic step: each product's stock plus the quantities of
\* all committed line items for it equals its initial stock.
C3_Conservation ==
    \A p \in ProductIds :
        products[p].stock + SumQuantity(RowsOfProduct(p)) = initStock[p]

\* C4: a pair fails with InsufficientStock exactly when its quantity is greater
\* than the product's current stock; the failure leaves the persisted stock
\* unchanged; a pair that passes (quantity equal to the stock included) leaves
\* stock minus quantity, which the commit persists.
C4_InsufficientExactlyWhenGreater ==
    [][\A r \in Sessions :
          /\ (SessStep(r) /\ crudResult'[r] = "InsufficientStock")
             => /\ failed'[r].product_id \in DOMAIN products
                /\ failed'[r].quantity > SeenStock(r, failed'[r].product_id)
                /\ products' = products
          /\ (SessStep(r) /\ Len(newItems'[r]) = Len(newItems[r]) + 1)
             => LET item == newItems'[r][Len(newItems'[r])]
                IN /\ item.quantity <= SeenStock(r, item.product_id)
                   /\ identityMap'[r][item.product_id].cur
                        = SeenStock(r, item.product_id) - item.quantity
          /\ (SessStep(r) /\ crudResult'[r] = "ok")
             => \A p \in DOMAIN identityMap[r] :
                   identityMap[r][p].cur # identityMap[r][p].orig
                   => products'[p].stock = identityMap[r][p].cur]_vars

C4_Witness ==
    /\ \E r \in Sessions :
          /\ crudResult[r] = "InsufficientStock"
          /\ failed[r].quantity = products[failed[r].product_id].stock + 1
    /\ \E row \in order_products :
          /\ row.quantity > 0
          /\ row.quantity = initStock[row.product_id]
          /\ products[row.product_id].stock = 0

\* C5: a successful create-order reduces the persisted stock of each product
\* by exactly the total quantity requested for it and persists exactly one
\* line item per requested pair, with the requested product and quantity.
C5_CommitReducesByTotal ==
    [][\A r \in Sessions :
          (SessStep(r) /\ crudResult'[r] = "ok")
          => /\ \A p \in ProductIds :
                   products'[p].stock
                     = products[p].stock - TotalRequested(newItems[r], p)
             /\ order_products' \ order_products = ItemRows(newItems[r])
             /\ Cardinality(order_products' \ order_products) = reqLen[r]]_vars

\* C6: a pair whose product reference does not resolve fails with NotFound
\* (404), and the request changes no product's stock and no line item; only
\* pairs whose product resolves are turned into line items.
C6_UnknownProductNotFound ==
    [][\A r \in Sessions :
          /\ (SessStep(r) /\ failed'[r].idx > 0
                 /\ failed'[r].product_id \notin DOMAIN products)
             => /\ crudResult'[r] = "NotFound"
             /\ CrudStatus(crudResult'[r]) = 404
             /\ products' = products
             /\ order_products' = order_products
          /\ (SessStep(r) /\ Len(newItems'[r]) = Len(newItems[r]) + 1)
             => newItems'[r][Len(newItems'[r])].product_id \in DOMAIN products]_vars

C6_Witness ==
    \E r \in Sessions :
        /\ pc[r] = "done"
        /\ crudResult[r] = "NotFound"
        /\ failed[r].product_id \notin DOMAIN products
        /\ order_products = {}
        /\ \A p \in ProductIds : products[p].stock = initStock[p]

\* C7: create-order rejects every pair whose quantity is zero or negative: no
\* line item with quantity <= 0 is ever persisted.
C7_NoNonPositiveQuantity ==
    \A row \in order_products : row.quantity > 0

\* C8: create-order with an empty list of items is rejected with the 400 of a
\* validation error and creates no line items.
C8_EmptyOrderRejected ==
    [][\A r \in Sessions :
          (SessStep(r) /\ reqLen[r] = 0)
          => /\ crudResult'[r] = "EmptyOrder"
             /\ CrudStatus(crudResult'[r]) = 400
             /\ order_products' = order_products]_vars

C8_Witness ==
    \E r \in Sessions :
        /\ pc[r] = "done"
        /\ reqLen[r] = 0
        /\ crudResult[r] = "EmptyOrder"
        /\ RowsOfOrder(sessOrder[r]) = {}

\* C9: when create-order fails with NotFound or InsufficientStock the endpoint
\* answers with a 404/400-class response, never with 500.
C9_FailureAnswered4xx ==
    \A r \in Sessions :
        crudResult[r] \in {"NotFound", "InsufficientStock"}
        => response[r] \in {400, 404}

\* C10: cancelling an order returns every product's stock to what it was
\* before the order was created (the cancellation gives back exactly what the
\* order took), and the order and its line items no longer exist.
C10_CancelRoundTrip ==
    [][\A o \in orders :
          o \notin orders'
          => /\ \A p \in ProductIds :
                   products'[p].stock - products[p].stock = taken[o][p]
             /\ \A row \in order_products' : row.order_id # o]_vars

\* the step is a request of the kind `op` to an order-item or catalog route
\* that is answered in this step (the first half of a product deletion uses
\* the budget and answers nothing)
Requested(op) ==
    /\ basketOps' = basketOps + 1
    /\ deleting' = deleting
    /\ lastOp'.op = op

\* C11: adding an item to an order that already has a line item for the same
\* (order, product) pair raises that item's quantity by the added quantity and
\* takes the added quantity from the stock, with no second row; an added
\* quantity above the remaining stock fails with InsufficientStock and leaves
\* the line item and the stock as they were.
C11_AddToExistingItemIncreases ==
    [][Requested("add") =>
          LET o == lastOp'.order_id
              p == lastOp'.product_id
              q == lastOp'.quantity
          IN \A row \in ItemAt(o, p) :
                IF q > products[p].stock
                THEN /\ lastOp'.outcome = "InsufficientStock"
                     /\ order_products' = order_products
                     /\ products' = products
                ELSE /\ order_products' = (order_products \ {row})
                            \cup {[row EXCEPT !.quantity = row.quantity + q]}
                     /\ products'[p].stock = products[p].stock - q]_vars

\* C12: updating a line item to a new absolute quantity changes the product's
\* stock by old quantity minus new quantity: an increase whose delta exceeds
\* the current stock is refused with InsufficientStock, a decrease returns the
\* delta to the stock, and the item's quantity and the product's stock change
\* together or not at all.
C12_UpdateQuantityMovesStockByDelta ==
    [][Requested("modify") =>
          LET o == lastOp'.order_id
              p == lastOp'.product_id
              q == lastOp'.quantity
          IN /\ \A row \in ItemAt(o, p) :
                   IF q - row.quantity > products[p].stock
                   THEN /\ lastOp'.outcome = "InsufficientStock"
                        /\ order_products' = order_products
                        /\ products' = products
                   ELSE /\ lastOp'.outcome = "ok"
                        /\ order_products' = (order_products \ {row})
                               \cup {[row EXCEPT !.quantity = q]}
                        /\ products' = [products EXCEPT
                               ![p].stock = @ + (row.quantity - q)]
             /\ (order_products' # order_products) <=> (products' # products)]_vars

C12_Witness ==
    /\ lastOp.op = "modify"
    /\ lastOp.outcome = "InsufficientStock"
    /\ \E row \in ItemAt(lastOp.order_id, lastOp.product_id) :
          /\ row.quantity < lastOp.quantity
          /\ products[row.product_id].stock < lastOp.quantity - row.quantity

\* C13: removing a line item that is stored gives its quantity back to the
\* product's stock and deletes the row; removing it again finds no row, is
\* answered NotFound (404) and changes neither stock nor line items, so the
\* stock is increased by the item's quantity exactly once.
C13_SecondRemovalNotFound ==
    [][Requested("remove") =>
          LET o == lastOp'.order_id
              p == lastOp'.product_id
          IN IF ItemAt(o, p) = {}
             THEN /\ lastOp'.outcome = "NotFound"
                  /\ lastOp'.status = 404
                  /\ products' = products
                  /\ order_products' = order_products
             ELSE \A row \in ItemAt(o, p) :
                     /\ lastOp'.status = 200
                     /\ products' = [products EXCEPT ![p].stock = @ + row.quantity]
                     /\ order_products' = order_products \ {row}]_vars

\* the only item of an order was removed by the first of two requests and the
\* second removal of the same item is answered 404 with the stock restored once
C13_Witness ==
    /\ lastOp.op = "remove"
    /\ lastOp.status = 404
    /\ basketOps = 2
    /\ pc[1] = "done" /\ crudResult[1] = "ok" /\ reqLen[1] = 1
    /\ sessOrder[1] = lastOp.order_id
    /\ RowsOfOrder(lastOp.order_id) = {}
    /\ \A p \in ProductIds :
          /\ p # lastOp.product_id => initStock[p] = 0
          /\ products[p].stock = initStock[p]

\* C14: confirming an order checks every line item against the product's stock
\* as it is at confirmation time: if any item's quantity exceeds the stock the
\* confirmation fails with InsufficientStock (400) and no product's stock is
\* changed; otherwise the stock of every item's product is decremented by the
\* item's quantity.
C14_ConfirmRechecksStock ==
    [][Requested("confirm") =>
          LET o == lastOp'.order_id
          IN (o \in orders /\ RowsOfOrder(o) # {}) =>
                IF \E row \in RowsOfOrder(o) :
                       row.quantity > products[row.product_id].stock
                THEN /\ lastOp'.outcome = "InsufficientStock"
                     /\ lastOp'.status = 400
                     /\ products' = products
                ELSE /\ lastOp'.status = 200
                     /\ \A row \in RowsOfOrder(o) :
                           products'[row.product_id].stock
                             = products[row.product_id].stock - row.quantity]_vars

\* the stock of an item's product was edited down to 0 after the order took
\* its item, and the confirmation was refused
C14_Witness ==
    /\ lastOp.op = "confirm"
    /\ lastOp.outcome = "InsufficientStock"
    /\ \E row \in RowsOfOrder(lastOp.order_id) :
          /\ products[row.product_id].stock = 0
          /\ RowsOfProduct(row.product_id) = {row}
          /\ initStock[row.product_id] > row.quantity

\* the orders whose create-order request is still running
InFlight == {sessOrder[r] : r \in {x \in Sessions : pc[x] = "open"}}

C16_LineItemKeepsSnapshot ==
    [][/\ \A r \in Sessions :
             (SessStep(r) /\ crudResult'[r] = "ok")
             => \A row \in order_products' \ order_products :
                   row.snapshot = {catalog[row.product_id]}
       /\ \A row \in order_products : \A kept \in order_products' :
             (kept.order_id = row.order_id /\ kept.product_id = row.product_id)
             => kept.snapshot = row.snapshot]_vars

\* C19: every persisted product has price > 0 and stock >= 0 after any
\* sequence of create-product and PATCH requests, whatever stock and price
\* the requests supply.
C19_ProductPriceAndStockInRange ==
    \A p \in DOMAIN products :
        /\ catalog[p].price > 0
        /\ products[p].stock >= 0

\* C17: once a product has been deleted, reading an order that a create-order
\* request completed still succeeds and returns as many line items as the
\* request created for the order, the items of the deleted product included.
C17_ReadAfterProductDelete ==
    [][(Requested("read") /\ ProductIds \ DOMAIN products # {}) =>
          \A r \in Sessions :
              (pc[r] = "done" /\ crudResult[r] = "ok"
                  /\ sessOrder[r] = lastOp'.order_id)
              => /\ lastOp'.outcome = "ok"
                 /\ lastOp'.count = reqLen[r]]_vars

\* C18: after a product is deleted no line item that references it remains in
\* any order: every stored line item's product is a stored product.
C18_NoItemOfDeletedProduct ==
    \A row \in order_products : row.product_id \in DOMAIN products

\* a product was deleted and took the line item of a completed order with it
C18_Witness ==
    /\ ProductIds \ DOMAIN products # {}
    /\ \E r \in Sessions :
          /\ pc[r] = "done" /\ crudResult[r] = "ok" /\ reqLen[r] > 0
          /\ RowsOfOrder(sessOrder[r]) = {}

\* C20: a create-order request writes its stock values and its line items
\* in one step, its final commit, or not at all: a request that is abandoned
\* or fails before that commit persists no stock change and no line item, and
\* the commit stores every line item of the request together with every stock
\* value the request computed.
C20_StockAndItemsCommittedTogether ==
    [][\A r \in Sessions :
          SessStep(r) =>
             IF crudResult'[r] = "ok"
             THEN /\ ItemRows(newItems[r]) \subseteq order_products'
                  /\ \A i \in 1..Len(newItems[r]) :
                        LET p == newItems[r][i].product_id
                        IN identityMap[r][p].cur # identityMap[r][p].orig
                           => products'[p].stock = identityMap[r][p].cur
             ELSE /\ products' = products
                  /\ order_products' = order_products]_vars

\* a request was abandoned after its first pair had reduced the stock in the
\* session: no line item of its order and no stock change is stored
C20_Witness ==
    \E r \in Sessions :
        /\ pc[r] = "done"
        /\ crudResult[r] = "Cancelled"
        /\ failed[r].idx = 2
        /\ RowsOfOrder(sessOrder[r]) = {}
        /\ order_products = {}
        /\ \A p \in ProductIds : products[p].stock = initStock[p]

\* C21: a create-order request that fails (empty item list, unknown product or
\* insufficient stock) leaves the set of persisted orders as it was: the order
\* of a request that ended with one of these failures is not stored.
C21_FailedCreateLeavesNoOrder ==
    \A r \in Sessions :
        (pc[r] = "done" /\ crudResult[r] \in {"EmptyOrder", "NotFound", "InsufficientStock"})
        => sessOrder[r] \notin orders

\* C22: within one create-order request that names a product in several
\* pairs, each pair is checked against the stock the request first read less
\* the quantities of its earlier pairs for that product: a pair passes only
\* when its quantity is within that remainder, is refused for insufficient
\* stock only when it exceeds it, and the request succeeds only if, for every
\* product, the stock it read is at least the sum of the quantities it asks.
C22_RepeatedProductSeesReducedStock ==
    [][\A r \in Sessions :
          SessStep(r) =>
             LET firstRead(p) == IF p \in DOMAIN identityMap[r]
                                 THEN identityMap[r][p].orig ELSE products[p].stock
                 remainder(p) == firstRead(p) - TotalRequested(newItems[r], p)
             IN /\ Len(newItems'[r]) = Len(newItems[r]) + 1
                   => LET item == newItems'[r][Len(newItems'[r])]
                      IN item.quantity <= remainder(item.product_id)
                /\ crudResult'[r] = "InsufficientStock"
                   => failed'[r].quantity > remainder(failed'[r].product_id)
                /\ crudResult'[r] = "ok"
                   => \A p \in DOMAIN products :
                         TotalRequested(newItems[r], p) <= firstRead(p)]_vars

\* the second pair of a request was refused although its quantity is within
\* the stored stock, which nobody has changed: the first pair of the same
\* request had asked for the same product
C22_Witness ==
    \E r \in Sessions :
        /\ pc[r] = "done"
        /\ crudResult[r] = "InsufficientStock"
        /\ failed[r].idx = 2
        /\ failed[r].quantity <= products[failed[r].product_id].stock
        /\ order_products = {}
        /\ \A p \in ProductIds : products[p].stock = initStock[p]

\* C23: in every reachable state there is at most one line item per
\* (order, product) pair, also after a create-order request that lists a
\* product twice and after add-item on a product already in the order.
C23_OneItemPerOrderAndProduct ==
    \A o \in OrderIds, p \in ProductIds : Cardinality(ItemAt(o, p)) <= 1

\* a create-order request that listed a product twice was refused at its
\* commit and stored none of its rows, and the last request added to a product
\* the order already held from its creation: that pair still has one item
C23_Witness ==
    /\ pc[1] = "done"
    /\ crudResult[1] = "IntegrityError"
    /\ RowsOfOrder(sessOrder[1]) = {}
    /\ lastOp.op = "add"
    /\ lastOp.outcome = "ok"
    /\ \E row \in ItemAt(lastOp.order_id, lastOp.product_id) : row.snapshot = {}

\* C24: a successful create-order changes the stock only of products named
\* in the request and does not add, change or remove line items of any other
\* order.
C24_CreateOrderFrame ==
    [][\A r \in Sessions :
          (SessStep(r) /\ crudResult'[r] = "ok")
          => /\ \A p \in DOMAIN products :
                   (\A i \in 1..Len(newItems[r]) : newItems[r][i].product_id # p)
                   => (p \in DOMAIN products' /\ products'[p] = products[p])
             /\ \A o \in OrderIds \ {sessOrder[r]} :
                   {row \in order_products' : row.order_id = o} = RowsOfOrder(o)]_vars

\* a request has succeeded while another one, still open, holds a reduced
\* stock of a product the first did not name: that product's stored stock is
\* as it was at the start
C24_Witness ==
    \E r, s \in Sessions :
        /\ pc[r] = "done" /\ crudResult[r] = "ok"
        /\ RowsOfOrder(sessOrder[r]) # {}
        /\ pc[s] = "open"
        /\ \E p \in DOMAIN identityMap[s] :
              /\ identityMap[s][p].cur # identityMap[s][p].orig
              /\ RowsOfProduct(p) = {}
              /\ products[p].stock = initStock[p]

\* C25: the update-item-quantity endpoint answers 404 when the line item
\* does not exist, and answers 400 only for failures of the update itself,
\* which are failures on a line item that exists.
C25_UpdateMissingItemAnswers404 ==
    [][Requested("modify") =>
          /\ ItemAt(lastOp'.order_id, lastOp'.product_id) = {} => lastOp'.status = 404
          /\ lastOp'.status = 400
             => ItemAt(lastOp'.order_id, lastOp'.product_id) # {}]_vars

\* C26: a product PATCH changes only the fields the request supplies: every
\* field it does not supply keeps its previous value, no other product is
\* changed, and a PATCH on an id that no product has answers 404 and changes
\* nothing.
C26_PatchChangesOnlySuppliedFields ==
    [][Requested("patch") =>
          LET p == lastOp'.product_id
          IN IF p \notin DOMAIN products
             THEN lastOp'.status = 404 /\ products' = products /\ catalog' = catalog
             ELSE /\ DOMAIN products' = DOMAIN products
                  /\ DOMAIN catalog' = DOMAIN catalog
                  /\ \A q \in DOMAIN products \ {p} :
                        products'[q] = products[q] /\ catalog'[q] = catalog[q]
                  /\ "name" \notin lastOp'.sent => catalog'[p].name = catalog[p].name
                  /\ "price" \notin lastOp'.sent => catalog'[p].price = catalog[p].price
                  /\ "stock" \notin lastOp'.sent
                     => products'[p].stock = products[p].stock]_vars

\* a PATCH that carried only a price was applied to a product whose name and
\* stock earlier requests had changed: both edits are still there
C26_Witness ==
    /\ lastOp.op = "patch"
    /\ lastOp.outcome = "ok"
    /\ lastOp.sent = {"price"}
    /\ catalog[lastOp.product_id].price = 0
    /\ catalog[lastOp.product_id].name = <<"n", "2">>
    /\ lastOp.product_id \in ProductIds
    /\ products[lastOp.product_id].stock # initStock[lastOp.product_id]

C28_LookupByIdOrName ==
    [][Requested("lookup") =>
          LET s == lastOp'.identifier
              found == lastOp'.product_id
              onlyDigits == \A i \in 1..Len(s) : s[i] \in Digits
              matching == IF onlyDigits
                          THEN {p \in DOMAIN products : p = Decimal(s)}
                          ELSE {p \in DOMAIN catalog : catalog[p].name = s}
          IN IF matching = {}
             THEN lastOp'.status = 404 /\ found = 0
             ELSE lastOp'.status = 200 /\ found \in matching]_vars
====
